---- MODULE Spec2Model ----
(***************************************************************************)
(* Model of src/app.py: the quiz generation handler (generate_quiz) with   *)
(* its line parser, the Moodle catalog import (moodle_import,              *)
(* import_modules_for_course), the quiz attempt handler (student_quiz)     *)
(* and the scoring aggregation (analytics).                                *)
(*                                                                         *)
(* Python strings that the code inspects (startswith, strip, split, join,  *)
(* slicing) are sequences of one-character strings.  Strings the code only *)
(* copies or compares as a whole (titles, flash messages) are TLA+         *)
(* strings.  The admin_required / student_required decorators are taken to *)
(* have let the request through.                                           *)
(***************************************************************************)
EXTENDS Integers, Sequences, FiniteSets, TLC

VARIABLES
    courses,         \* table courses: sequence of rows, in id order
    modules,         \* table modules
    quiz_questions,  \* table quiz_questions
    quiz_attempts,   \* table quiz_attempts
    requests,        \* the requests served so far, with their responses
    threads,         \* concurrent generate_quiz requests: position and locals
    remote,          \* the remote Moodle catalog (environment)
    module_data      \* what the last analytics request handed to its template

vars == <<courses, modules, quiz_questions, quiz_attempts, requests, threads,
          remote, module_data>>

(***************************************************************************)
(* Bounds                                                                  *)
(***************************************************************************)
MaxLines == 4        \* lines in one backend response (parser runs)
MaxOrderLines == 6   \* lines in one backend response (emission order)
MaxRequests == 3     \* generate_quiz requests served in sequence
NumThreads == 2      \* concurrent generate_quiz requests
NumModules == 1      \* local modules present when quizzes are generated
MaxCourses == 2      \* courses in the remote catalog
MaxRuns == 2         \* catalog imports run in sequence
MaxQuestions == 5    \* questions in a module's quiz when attempts are scored
MaxAttempts == 3     \* quiz attempts recorded

(***************************************************************************)
(* Python string and list operations                                       *)
(***************************************************************************)
SeqUpTo(S, n) == UNION {[1..k -> S] : k \in 0..n}

IsSpace(c) == c \in {" ", "\n"}

RECURSIVE LStrip(_)
LStrip(s) ==
    IF s # <<>> /\ IsSpace(Head(s)) THEN LStrip(Tail(s)) ELSE s

RECURSIVE RStrip(_)
RStrip(s) ==
    IF s # <<>> /\ IsSpace(s[Len(s)]) THEN RStrip(SubSeq(s, 1, Len(s) - 1)) ELSE s

\* str.strip()
Strip(s) == RStrip(LStrip(s))

\* str.startswith(prefix)
StartsWith(s, prefix) ==
    /\ Len(s) >= Len(prefix)
    /\ SubSeq(s, 1, Len(prefix)) = prefix

\* str.startswith(tuple of prefixes)
StartsWithAny(s, prefixes) == \E p \in prefixes : StartsWith(s, p)

\* s[n:]
SliceFrom(s, n) == SubSeq(s, n + 1, Len(s))

\* sep.join(parts)
RECURSIVE Join(_, _)
Join(parts, sep) ==
    IF parts = <<>> THEN <<>>
    ELSE IF Len(parts) = 1 THEN parts[1]
    ELSE parts[1] \o sep \o Join(Tail(parts), sep)

\* s.split(c) for a one-character separator c: the piece before the first
\* occurrence of c, then the pieces of the rest
RECURSIVE SplitChar(_, _)
SplitChar(s, c) ==
    LET seps == {i \in 1..Len(s) : s[i] = c}
    IN  IF seps = {} THEN <<s>>
        ELSE LET first == CHOOSE i \in seps : \A j \in seps : i <= j
             IN  <<SubSeq(s, 1, first - 1)>> \o SplitChar(SubSeq(s, first + 1, Len(s)), c)

\* s.split(sep)[-1]: what follows the last occurrence of sep (all of s when
\* sep does not occur)
SplitLast(s, sep) ==
    LET occ == {i \in 1..Len(s) : /\ i + Len(sep) - 1 <= Len(s)
                                  /\ SubSeq(s, i, i + Len(sep) - 1) = sep}
    IN  IF occ = {} THEN s
        ELSE LET last == CHOOSE i \in occ : \A j \in occ : j <= i
             IN  SubSeq(s, last + Len(sep), Len(s))

(***************************************************************************)
(* generate_quiz: the markers and the line loop                            *)
(***************************************************************************)
QuestionMarkers == {<<"1", ")">>, <<"2", ")">>, <<"3", ")">>, <<"4", ")">>, <<"5", ")">>}

OptionMarkers == {<<"A", ")">>, <<"B", ")">>, <<"C", ")">>, <<"D", ")">>}

CorrectAnswerMarker ==
    <<"C", "o", "r", "r", "e", "c", "t", " ", "a", "n", "s", "w", "e", "r", ":">>

\* locals of generate_quiz before the loop; added: the QuizQuestion objects
\* handed to db.session.add so far
ParserInit ==
    [question_text |-> <<>>, options |-> <<>>, correct_answer |-> <<>>, added |-> <<>>]

\* (mutation of IsComplete: the correct answer is not tested)
IsComplete_NoAnswer(st) ==
    /\ st.question_text # <<>>
    /\ st.options # <<>>

\* the test "if question_text and options and correct_answer"
IsComplete(st) ==
    /\ st.question_text # <<>>
    /\ st.options # <<>>
    /\ st.correct_answer # <<>>

\* QuizQuestion(question=..., options="|".join(options), answer=..., module_id=...)
NewQuestion(st, module_id) ==
    [question  |-> st.question_text,
     options   |-> Join(st.options, <<"|">>),
     answer    |-> st.correct_answer,
     module_id |-> module_id]

\* the branch taken at a question marker: store the question in progress when it
\* is complete and reset the three locals, then start the new question
OnQuestionMarker(st, line, module_id) ==
    LET saved == IF IsComplete(st)
                 THEN [question_text |-> <<>>, options |-> <<>>, correct_answer |-> <<>>,
                       added |-> Append(st.added, NewQuestion(st, module_id))]
                 ELSE st
    IN  [saved EXCEPT !.question_text = Strip(SliceFrom(line, 2))]

\* one iteration of "for line in lines"
ParseLine(st, rawline, module_id) ==
    LET line == Strip(rawline) IN
    IF StartsWithAny(line, QuestionMarkers) THEN OnQuestionMarker(st, line, module_id)
    ELSE IF StartsWithAny(line, OptionMarkers)
         THEN [st EXCEPT !.options = Append(@, line)]
    ELSE IF StartsWith(line, CorrectAnswerMarker)
         THEN [st EXCEPT !.correct_answer = Strip(SplitLast(line, CorrectAnswerMarker))]
    ELSE st

\* the locals after the first n iterations of the loop
RECURSIVE ParseLoop(_, _, _)
ParseLoop(lines, n, module_id) ==
    IF n = 0 THEN ParserInit
    ELSE ParseLine(ParseLoop(lines, n - 1, module_id), lines[n], module_id)

\* (mutation of StoreLast: the last question is put before the others)
StoreLast_First(st, module_id) ==
    IF IsComplete(st) THEN <<NewQuestion(st, module_id)>> \o st.added ELSE st.added

\* "Store the last question if still present"
StoreLast(st, module_id) ==
    IF IsComplete(st) THEN Append(st.added, NewQuestion(st, module_id)) ELSE st.added

\* generated_text.split('\n')
SplitLines(generated_text) == SplitChar(generated_text, "\n")

\* the objects generate_quiz adds to the session for one generated text
ParseQuiz(generated_text, module_id) ==
    LET lines == SplitLines(generated_text)
    IN  StoreLast(ParseLoop(lines, Len(lines), module_id), module_id)

\* generate_quiz_questions: the backend's content, stripped
generate_quiz_questions(content) == Strip(content)

(***************************************************************************)
(* The store                                                               *)
(***************************************************************************)
\* primary keys handed out when the pending objects are flushed
RECURSIVE WithIds(_, _)
WithIds(objs, lastId) ==
    IF objs = <<>> THEN <<>>
    ELSE <<[id |-> lastId + 1] @@ Head(objs)>> \o WithIds(Tail(objs), lastId + 1)

\* (mutation of CommitRows: every row is committed on its own, so the rows
\* before the failing one stay)
CommitRows_PerRow(table, pending, failAt) ==
    IF failAt = 0 THEN table \o WithIds(pending, Len(table))
    ELSE table \o WithIds(SubSeq(pending, 1, failAt - 1), Len(table))

\* db.session.commit() of pending new rows of one table: failAt = 0 when the
\* commit succeeds; otherwise the insert of row failAt raises and the
\* transaction is rolled back
CommitRows(table, pending, failAt) ==
    IF failAt = 0 THEN table \o WithIds(pending, Len(table)) ELSE table

\* Model.query.filter_by(module_id=...).all()
ByModule(table, module_id) == SelectSeq(table, LAMBDA r : r.module_id = module_id)

\* Module.query.get(module_id)
ModuleExists(module_id) == \E i \in 1..Len(modules) : modules[i].id = module_id

(***************************************************************************)
(* Backend responses                                                       *)
(***************************************************************************)
LinePool ==
    { <<"1", ")", " ", "P">>,
      <<"2", ")", " ", "Q">>,
      <<"3", ")">>,
      <<" ", "A", ")", " ", "x">>,
      <<"B", ")", " ", "y">>,
      CorrectAnswerMarker \o <<" ", "A">>,
      CorrectAnswerMarker,
      <<"c", "o", "r", "r", "e", "c", "t", " ", "a", "n", "s", "w", "e", "r", ":", " ", "B">> }

ParseTexts == {Join(ls, <<"\n">>) : ls \in SeqUpTo(LinePool, MaxLines)}

OrderPool ==
    { <<"1", ")", " ", "P">>,
      <<"2", ")", " ", "Q">>,
      <<"A", ")", " ", "x">>,
      CorrectAnswerMarker \o <<" ", "A">> }

OrderTexts == {Join(ls, <<"\n">>) : ls \in SeqUpTo(OrderPool, MaxOrderLines)}

FullQuestionP ==
    <<"1", ")", " ", "P", "\n", "A", ")", " ", "x", "\n">> \o CorrectAnswerMarker \o <<" ", "A">>

FullQuestionQ ==
    <<"2", ")", " ", "Q", "\n", "B", ")", " ", "y", "\n">> \o CorrectAnswerMarker \o <<" ", "B">>

\* backend responses for repeated generation: nothing, one question, two
\* questions, a question without its answer, and prose
GuardTexts ==
    { <<>>,
      FullQuestionP,
      FullQuestionP \o <<"\n">> \o FullQuestionQ,
      <<"3", ")", " ", "R", "\n", "A", ")", " ", "x">>,
      <<"S", "u", "r", "e", "!">> }

(***************************************************************************)
(* Requests and responses                                                  *)
(***************************************************************************)
FlashAlready == "Quiz already generated for this module."
FlashGenerated == "Quiz generated successfully!"

\* one served request: what was asked, what the backend returned to it (content,
\* when it was called), how many rows its commit stored, and the response
Served(route, module_id, status, flash, llm_called, content, stored) ==
    [route |-> route, module_id |-> module_id, status |-> status, flash |-> flash,
     llm_called |-> llm_called, content |-> content, stored |-> stored]

Faults == {"none", "llm", "commit"}

\* (mutation of QuizExists: a single stored question does not count as a quiz)
QuizExists_MoreThanOne(table, module_id) == Len(ByModule(table, module_id)) > 1

\* "if existing_questions": a quiz already exists for the module
QuizExists(table, module_id) == ByModule(table, module_id) # <<>>

(***************************************************************************)
(* generate_quiz, served without interleaving                              *)
(***************************************************************************)
generate_quiz(module_id, content, fault) ==
    /\ UNCHANGED <<courses, modules, quiz_attempts, threads, remote, module_data>>
    /\ IF ~ModuleExists(module_id)
       THEN \* get_or_404
            /\ requests' = Append(requests,
                   Served("generate_quiz", module_id, 404, "", FALSE, <<>>, 0))
            /\ UNCHANGED quiz_questions
       ELSE IF QuizExists(quiz_questions, module_id)
       THEN /\ requests' = Append(requests,
                   Served("generate_quiz", module_id, 302, FlashAlready, FALSE, <<>>, 0))
            /\ UNCHANGED quiz_questions
       ELSE IF fault = "llm"
       THEN \* the backend call raises; nothing was added
            /\ requests' = Append(requests,
                   Served("generate_quiz", module_id, 500, "", TRUE, <<>>, 0))
            /\ UNCHANGED quiz_questions
       ELSE LET generated_text == generate_quiz_questions(content)
                pending == ParseQuiz(generated_text, module_id)
            IN  IF fault = "commit"
                THEN \E failAt \in 1..Len(pending) :
                        /\ quiz_questions' = CommitRows(quiz_questions, pending, failAt)
                        /\ requests' = Append(requests,
                               Served("generate_quiz", module_id, 500, "", TRUE, content, 0))
                ELSE /\ quiz_questions' = CommitRows(quiz_questions, pending, 0)
                     /\ requests' = Append(requests,
                            Served("generate_quiz", module_id, 302, FlashGenerated, TRUE,
                                   content, Len(pending)))

(***************************************************************************)
(* Initial states                                                          *)
(***************************************************************************)
\* a course with NumModules modules, as create_course and create_module leave it
LocalCourse == [id |-> 1, title |-> "T1", description |-> "D"]

LocalModule(i) == [id |-> i, title |-> "m", content |-> "text", course_id |-> 1]

InitQuiz ==
    /\ courses = <<LocalCourse>>
    /\ modules = [i \in 1..NumModules |-> LocalModule(i)]
    /\ quiz_questions = <<>>
    /\ quiz_attempts = <<>>
    /\ requests = <<>>
    /\ threads = <<>>
    /\ remote = <<>>
    /\ module_data = <<>>

(***************************************************************************)
(* SpecParse: one generate_quiz request, the backend returning any text of *)
(* up to MaxLines lines                                                    *)
(***************************************************************************)
ParseRequest ==
    /\ requests = <<>>
    /\ \E module_id \in 1..NumModules, content \in ParseTexts :
          generate_quiz(module_id, content, "none")

SpecParse == InitQuiz /\ [][ParseRequest]_vars

(***************************************************************************)
(* SpecOrder: one generate_quiz request, the backend returning up to       *)
(* MaxOrderLines well-formed lines, enough for several questions           *)
(***************************************************************************)
OrderRequest ==
    /\ requests = <<>>
    /\ \E module_id \in 1..NumModules, content \in OrderTexts :
          generate_quiz(module_id, content, "none")

SpecOrder == InitQuiz /\ [][OrderRequest]_vars

(***************************************************************************)
(* SpecGuard: generate_quiz requests served one after the other            *)
(***************************************************************************)
GuardRequest ==
    /\ Len(requests) < MaxRequests
    /\ \E module_id \in 1..(NumModules + 1), content \in GuardTexts, fault \in Faults :
          generate_quiz(module_id, content, fault)

SpecGuard == InitQuiz /\ [][GuardRequest]_vars

(***************************************************************************)
(* SpecRace: NumThreads generate_quiz requests served concurrently, one    *)
(* thread each with its own session.  A request is interleaved with the    *)
(* others between its existence check, its backend call and its commit.    *)
(***************************************************************************)
InitRace ==
    /\ courses = <<LocalCourse>>
    /\ modules = [i \in 1..NumModules |-> LocalModule(i)]
    /\ quiz_questions = <<>>
    /\ quiz_attempts = <<>>
    /\ requests = <<>>
    /\ threads \in [1..NumThreads ->
                       {[pc |-> "check", module_id |-> m, content |-> <<>>,
                         generated_text |-> <<>>] : m \in 1..NumModules}]
    /\ remote = <<>>
    /\ module_data = <<>>

\* module lookup and the test for existing questions
GenCheck(t) ==
    /\ threads[t].pc = "check"
    /\ IF QuizExists(quiz_questions, threads[t].module_id)
       THEN /\ threads' = [threads EXCEPT ![t].pc = "done"]
            /\ requests' = Append(requests,
                   Served("generate_quiz", threads[t].module_id, 302, FlashAlready,
                          FALSE, <<>>, 0))
       ELSE /\ threads' = [threads EXCEPT ![t].pc = "call"]
            /\ UNCHANGED requests
    /\ UNCHANGED <<courses, modules, quiz_questions, quiz_attempts, remote, module_data>>

\* generated_text = generate_quiz_questions(module.content, num_questions=5)
GenCall(t, content, fault) ==
    /\ threads[t].pc = "call"
    /\ IF fault = "llm"
       THEN /\ threads' = [threads EXCEPT ![t].pc = "done"]
            /\ requests' = Append(requests,
                   Served("generate_quiz", threads[t].module_id, 500, "", TRUE, <<>>, 0))
       ELSE /\ threads' = [threads EXCEPT ![t].pc = "store", ![t].content = content,
                                          ![t].generated_text = generate_quiz_questions(content)]
            /\ UNCHANGED requests
    /\ UNCHANGED <<courses, modules, quiz_questions, quiz_attempts, remote, module_data>>

\* the loop over the lines, the adds and db.session.commit()
GenStore(t, fault) ==
    /\ threads[t].pc = "store"
    /\ LET module_id == threads[t].module_id
           pending == ParseQuiz(threads[t].generated_text, module_id)
       IN  IF fault = "commit"
           THEN \E failAt \in 1..Len(pending) :
                   /\ quiz_questions' = CommitRows(quiz_questions, pending, failAt)
                   /\ requests' = Append(requests,
                          Served("generate_quiz", module_id, 500, "", TRUE,
                                 threads[t].content, 0))
           ELSE /\ quiz_questions' = CommitRows(quiz_questions, pending, 0)
                /\ requests' = Append(requests,
                       Served("generate_quiz", module_id, 302, FlashGenerated, TRUE,
                              threads[t].content, Len(pending)))
    /\ threads' = [threads EXCEPT ![t].pc = "done"]
    /\ UNCHANGED <<courses, modules, quiz_attempts, remote, module_data>>

NextRace ==
    \/ \E t \in 1..NumThreads : GenCheck(t)
    \/ \E t \in 1..NumThreads, content \in GuardTexts, fault \in {"none", "llm"} :
          GenCall(t, content, fault)
    \/ \E t \in 1..NumThreads, fault \in {"none", "commit"} : GenStore(t, fault)

SpecRace == InitRace /\ [][NextRace]_vars

(***************************************************************************)
(* The remote catalog.  A JSON object is a record; a key the object lacks  *)
(* holds Absent.  dict.get(key) of a lacking key gives PyNone.             *)
(***************************************************************************)
Absent == "<absent>"
PyNone == "<None>"

\* d.get(key, default), with v the field of d under key
Get(v, default) == IF v = Absent THEN default ELSE v

\* content items: one with every field, one with no field, and one that is not
\* an object (JSON null)
NamedItem == [json |-> "object", name |-> "m1", description |-> "d"]
BareItem == [json |-> "object", name |-> Absent, description |-> Absent]
NullItem == [json |-> "null", name |-> Absent, description |-> Absent]

Section(items) == [summary |-> "s", modules |-> items]

\* what core_course_get_contents answers for one course: ok = FALSE when the
\* request raises; otherwise a list of sections
ContentKinds ==
    { [ok |-> FALSE, sections |-> <<>>],
      [ok |-> TRUE, sections |-> <<>>],
      [ok |-> TRUE, sections |-> <<Section(<<NamedItem>>)>>],
      [ok |-> TRUE, sections |-> <<Section(<<NamedItem>>), Section(<<NamedItem, BareItem>>)>>],
      [ok |-> TRUE, sections |-> <<Section(<<BareItem>>)>>],
      [ok |-> TRUE, sections |-> <<Section(<<NamedItem>>), Section(<<NullItem>>)>>],
      [ok |-> TRUE, sections |-> <<Section(<<>>), Section(<<NullItem, NamedItem>>)>>] }

CourseKinds ==
    { [fullname |-> "T1", summary |-> "S"],
      [fullname |-> Absent, summary |-> Absent] }

\* up = FALSE: core_course_get_courses raises
Remotes ==
    {[up |-> FALSE, courses |-> <<>>, contents |-> <<>>]}
        \cup UNION {
               {[up |-> TRUE,
                 courses |-> [i \in 1..n |-> [id |-> i, fullname |-> cs[i].fullname,
                                              summary |-> cs[i].summary]],
                 contents |-> ct] : cs \in [1..n -> CourseKinds], ct \in [1..n -> ContentKinds]}
               : n \in 0..MaxCourses}

(***************************************************************************)
(* The session of one moodle_import request: the committed tables and the  *)
(* Module objects added and not yet committed.  Queries autoflush, so they *)
(* see the pending objects too.                                            *)
(***************************************************************************)
VisibleModules(db) == db.modules \o WithIds(db.pending, Len(db.modules))

\* db.session.commit()
Commit(db) == [db EXCEPT !.modules = VisibleModules(db), !.pending = <<>>]

\* Module.query.filter_by(title=..., course_id=...).first() is not None;
\* title = None compares with IS NULL and matches no row
FindModule(db, title, course_id) ==
    /\ title # PyNone
    /\ \E i \in 1..Len(VisibleModules(db)) :
          /\ VisibleModules(db)[i].title = title
          /\ VisibleModules(db)[i].course_id = course_id

\* (mutation of FindCourse: the lookup compares the description column)
FindCourse_ByDescription(db, title) ==
    LET found == {i \in 1..Len(db.courses) : db.courses[i].description = title}
    IN  IF found = {} THEN 0 ELSE db.courses[CHOOSE i \in found : \A j \in found : i <= j].id

\* Course.query.filter_by(title=title).first(): the id of the first course with
\* that title, 0 when there is none
FindCourse(db, title) ==
    LET found == {i \in 1..Len(db.courses) : db.courses[i].title = title}
    IN  IF found = {} THEN 0 ELSE db.courses[CHOOSE i \in found : \A j \in found : i <= j].id

(***************************************************************************)
(* import_modules_for_course                                               *)
(***************************************************************************)
\* one iteration of "for module in section.get('modules', [])" (every section
\* of ContentKinds has its list of modules, possibly empty); st holds the
\* session, imported_modules_count and whether an exception is propagating
ImportItem(st, section, item, course_id) ==
    IF st.raised THEN st
    ELSE IF item.json # "object"
         THEN \* module.get raises AttributeError
              [st EXCEPT !.raised = TRUE]
    ELSE IF FindModule(st.db, Get(item.name, PyNone), course_id)
         THEN st
    ELSE LET description == Get(item.description, PyNone)
             new_module ==
                 [title |-> Get(item.name, "Untitled Module"),
                  content |-> IF description \in {PyNone, ""}
                              THEN Get(section.summary, "")
                              ELSE description,
                  course_id |-> course_id]
         IN  [st EXCEPT !.db.pending = Append(@, new_module), !.count = @ + 1]

RECURSIVE ImportItems(_, _, _, _)
ImportItems(st, section, n, course_id) ==
    IF n = 0 THEN st
    ELSE ImportItem(ImportItems(st, section, n - 1, course_id), section,
                    section.modules[n], course_id)

\* "for section in sections", the first n sections
RECURSIVE ImportSections(_, _, _, _)
ImportSections(st, sections, n, course_id) ==
    IF n = 0 THEN st
    ELSE LET before == ImportSections(st, sections, n - 1, course_id)
         IN  ImportItems(before, sections[n], Len(sections[n].modules), course_id)

\* the call: the session after it, the count it returns and whether it raised
import_modules_for_course(db, moodle_course_id, course_id) ==
    LET response == remote.contents[moodle_course_id]
        start == [db |-> db, count |-> 0, raised |-> FALSE]
    IN  IF ~response.ok
        THEN \* requests.get or raise_for_status raises
             [start EXCEPT !.raised = TRUE]
        ELSE LET done == ImportSections(start, response.sections, Len(response.sections),
                                        course_id)
             IN  IF done.raised THEN done ELSE [done EXCEPT !.db = Commit(done.db)]

(***************************************************************************)
(* moodle_import (POST)                                                    *)
(***************************************************************************)
Flash(category, text, ncourses, nmodules) ==
    [category |-> category, text |-> text, courses |-> ncourses, modules |-> nmodules]

\* one iteration of "for mc in moodle_courses"; run holds the session, the two
\* counters and the messages flashed
ImportCourse(run, mc) ==
    LET title == Get(mc.fullname, "Untitled")
        description == Get(mc.summary, "No description provided")
        existing_id == FindCourse(run.db, title)
        \* a new course is added and committed at once, with whatever else the
        \* session holds
        created ==
            IF existing_id # 0 THEN run
            ELSE [run EXCEPT
                    !.db = Commit([run.db EXCEPT !.courses =
                               Append(@, [id |-> Len(run.db.courses) + 1, title |-> title,
                                          description |-> description])]),
                    !.imported_courses = @ + 1]
        local_course_id == IF existing_id # 0 THEN existing_id ELSE Len(run.db.courses) + 1
        result == import_modules_for_course(created.db, mc.id, local_course_id)
    IN  IF result.raised
        THEN [created EXCEPT !.db = result.db,
                             !.flashes = Append(@, Flash("warning", title, 0, 0))]
        ELSE [created EXCEPT !.db = result.db,
                             !.imported_modules = @ + result.count]

RECURSIVE ImportCourses(_, _, _)
ImportCourses(run, moodle_courses, n) ==
    IF n = 0 THEN run
    ELSE ImportCourse(ImportCourses(run, moodle_courses, n - 1), moodle_courses[n])

\* one served import: the flashed messages, the counts reported and the sizes
\* of the two tables when the request ended
ServedImport(status, flashes, imported_courses, imported_modules, ncourses, nmodules) ==
    [route |-> "moodle_import", status |-> status, flashes |-> flashes,
     imported_courses |-> imported_courses, imported_modules |-> imported_modules,
     courses_after |-> ncourses, modules_after |-> nmodules]

moodle_import ==
    /\ UNCHANGED <<quiz_questions, quiz_attempts, threads, remote, module_data>>
    /\ IF ~remote.up
       THEN \* "Error fetching courses"
            /\ requests' = Append(requests,
                   ServedImport(302, <<Flash("danger", "Error fetching courses", 0, 0)>>,
                                0, 0, Len(courses), Len(modules)))
            /\ UNCHANGED <<courses, modules>>
       ELSE LET start == [db |-> [courses |-> courses, modules |-> modules, pending |-> <<>>],
                          imported_courses |-> 0, imported_modules |-> 0, flashes |-> <<>>]
                run == ImportCourses(start, remote.courses, Len(remote.courses))
            IN  \* what is still pending when the request ends is rolled back
                /\ courses' = run.db.courses
                /\ modules' = run.db.modules
                /\ requests' = Append(requests,
                       ServedImport(302,
                           Append(run.flashes, Flash("success", "Imported", run.imported_courses,
                                                     run.imported_modules)),
                           run.imported_courses, run.imported_modules,
                           Len(run.db.courses), Len(run.db.modules)))

(***************************************************************************)
(* SpecImport: imports run one after the other against a remote catalog    *)
(* that does not change, starting from an empty local catalog              *)
(***************************************************************************)
InitImport ==
    /\ courses = <<>>
    /\ modules = <<>>
    /\ quiz_questions = <<>>
    /\ quiz_attempts = <<>>
    /\ requests = <<>>
    /\ threads = <<>>
    /\ remote \in Remotes
    /\ module_data = <<>>

ImportRun ==
    /\ Len(requests) < MaxRuns
    /\ moodle_import

SpecImport == InitImport /\ [][ImportRun]_vars

(***************************************************************************)
(* Scores.  A score is the exact rational num/den in lowest terms; the     *)
(* code holds it in a float.  None, where the code has a number or None,   *)
(* is the pair with den = 0.                                               *)
(***************************************************************************)
RECURSIVE GCD(_, _)
GCD(a, b) == IF b = 0 THEN a ELSE GCD(b, a % b)

Rat(n, d) == LET g == GCD(n, d) IN [num |-> n \div g, den |-> d \div g]

NoneNumber == [num |-> 0, den |-> 0]

RatAdd(a, b) == Rat(a.num * b.den + b.num * a.den, a.den * b.den)

RatLess(a, b) == a.num * b.den < b.num * a.den

\* sum(scores)
RECURSIVE PySum(_)
PySum(scores) == IF scores = <<>> THEN Rat(0, 1) ELSE RatAdd(Head(scores), PySum(Tail(scores)))

\* max(scores), min(scores)
RECURSIVE PyMax(_)
PyMax(scores) ==
    IF Len(scores) = 1 THEN scores[1]
    ELSE LET rest == PyMax(Tail(scores))
         IN  IF RatLess(Head(scores), rest) THEN rest ELSE Head(scores)

RECURSIVE PyMin(_)
PyMin(scores) ==
    IF Len(scores) = 1 THEN scores[1]
    ELSE LET rest == PyMin(Tail(scores))
         IN  IF RatLess(rest, Head(scores)) THEN rest ELSE Head(scores)

\* (mutation of Round2: the digits after the second decimal are cut off)
Round2_Truncate(x) ==
    IF x = NoneNumber THEN NoneNumber ELSE Rat((x.num * 100) \div x.den, 100)

\* "round(v, 2) if v is not None else None": to the nearest hundredth, a tie to
\* the even one
Round2(x) ==
    IF x = NoneNumber THEN NoneNumber
    ELSE LET q == (x.num * 100) \div x.den
             r == (x.num * 100) % x.den
             h == IF 2 * r > x.den THEN q + 1
                  ELSE IF 2 * r < x.den THEN q
                  ELSE IF q % 2 = 0 THEN q ELSE q + 1
         IN  Rat(h, 100)

(***************************************************************************)
(* student_quiz (POST) and analytics                                       *)
(***************************************************************************)
StudentIds == {1}

\* correct: the questions (ids) whose selected option equals the stored answer
student_quiz(user_id, module_id, correct) ==
    /\ ModuleExists(module_id)
    /\ LET quiz == ByModule(quiz_questions, module_id)
           correct_count == Cardinality(correct)
       IN  /\ correct \subseteq {quiz[i].id : i \in 1..Len(quiz)}
           /\ IF Len(quiz) = 0
              THEN \* ZeroDivisionError: no attempt is saved
                   UNCHANGED quiz_attempts
              ELSE quiz_attempts' = Append(quiz_attempts,
                       [id |-> Len(quiz_attempts) + 1, user_id |-> user_id,
                        module_id |-> module_id,
                        score |-> Rat(correct_count * 100, Len(quiz))])
    /\ UNCHANGED <<courses, modules, quiz_questions, requests, threads, remote, module_data>>

\* the entry analytics appends for module m
ModuleEntry(m) ==
    LET attempts == ByModule(quiz_attempts, m.id)
        scores == [i \in 1..Len(attempts) |-> attempts[i].score]
        has == attempts # <<>>
        avg_score == IF has
                     THEN Rat(PySum(scores).num, PySum(scores).den * Len(scores))
                     ELSE NoneNumber
        max_score == IF has THEN PyMax(scores) ELSE NoneNumber
        min_score == IF has THEN PyMin(scores) ELSE NoneNumber
        attempts_count == IF has THEN Len(scores) ELSE 0
    IN  [title |-> m.title,
         avg_score |-> Round2(avg_score),
         max_score |-> Round2(max_score),
         min_score |-> Round2(min_score),
         attempts_count |-> attempts_count]

analytics ==
    /\ module_data' = [i \in 1..Len(modules) |-> ModuleEntry(modules[i])]
    /\ UNCHANGED <<courses, modules, quiz_questions, quiz_attempts, requests, threads, remote>>

(***************************************************************************)
(* SpecScore: attempts at the quizzes of the NumModules modules, each quiz *)
(* of up to MaxQuestions questions as generate_quiz stores them, and       *)
(* analytics requests                                                      *)
(***************************************************************************)
\* a backend response with n well-formed questions
RECURSIVE QuizText(_)
QuizText(n) ==
    IF n = 0 THEN <<>>
    ELSE IF n = 1 THEN FullQuestionP
    ELSE QuizText(n - 1) \o <<"\n">> \o FullQuestionP

\* the table after generate_quiz has stored n questions for each of modules 1..m
RECURSIVE QuizRows(_, _)
QuizRows(m, n) ==
    IF m = 0 THEN <<>>
    ELSE CommitRows(QuizRows(m - 1, n), ParseQuiz(QuizText(n), m), 0)

InitScore ==
    /\ courses = <<LocalCourse>>
    /\ modules = [i \in 1..NumModules |-> LocalModule(i)]
    /\ \E n \in 0..MaxQuestions : quiz_questions = QuizRows(NumModules, n)
    /\ quiz_attempts = <<>>
    /\ requests = <<>>
    /\ threads = <<>>
    /\ remote = <<>>
    /\ module_data = <<>>

\* the forms submitted: the first k questions of the quiz answered correctly,
\* the others not
Selections(module_id) ==
    LET quiz == ByModule(quiz_questions, module_id)
    IN  {{quiz[i].id : i \in 1..k} : k \in 0..Len(quiz)}

AttemptRequest ==
    /\ Len(quiz_attempts) < MaxAttempts
    /\ \E user_id \in StudentIds, module_id \in 1..NumModules :
          \E correct \in Selections(module_id) : student_quiz(user_id, module_id, correct)

NextScore == AttemptRequest \/ analytics

SpecScore == InitScore /\ [][NextScore]_vars

(***************************************************************************)
(* Reading a served generate_quiz request                                  *)
(***************************************************************************)
LastRequest == requests[Len(requests)]

\* the last request is a generate_quiz that parsed a backend response
ParsedLast ==
    /\ requests # <<>>
    /\ LastRequest.route = "generate_quiz"
    /\ LastRequest.status = 302
    /\ LastRequest.llm_called

\* the lines the last request's loop ran over
InputLines == SplitLines(generate_quiz_questions(LastRequest.content))

\* the rows the last request stored
LastStored ==
    SubSeq(quiz_questions, Len(quiz_questions) - LastRequest.stored + 1, Len(quiz_questions))

\* the loop's locals before it reads line n (n = Len + 1: after the loop)
LocalsBefore(n) == ParseLoop(InputLines, n - 1, LastRequest.module_id)

IsMarkerLine(line) == StartsWithAny(Strip(line), QuestionMarkers)

IsOptionLine(line) ==
    /\ ~IsMarkerLine(line)
    /\ StartsWithAny(Strip(line), OptionMarkers)

IsAnswerLine(line) ==
    /\ ~IsMarkerLine(line)
    /\ ~IsOptionLine(line)
    /\ StartsWith(Strip(line), CorrectAnswerMarker)

\* the places where a question can be emitted: a marker line, or the end of input
Boundaries == {n \in 1..(Len(InputLines) + 1) :
                   n = Len(InputLines) + 1 \/ IsMarkerLine(InputLines[n])}

\* the boundaries reached with a complete question in progress
EmitPoints == {n \in Boundaries : IsComplete(LocalsBefore(n))}

\* the boundaries reached with a question in progress that is not complete
DropPoints == {n \in Boundaries : /\ LocalsBefore(n).question_text # <<>>
                                  /\ ~IsComplete(LocalsBefore(n))}

\* the marker line that started the question in progress at boundary n (0: none)
MarkerBefore(n) ==
    LET ms == {k \in 1..(n - 1) : IsMarkerLine(InputLines[k])}
    IN  IF ms = {} THEN 0 ELSE CHOOSE k \in ms : \A j \in ms : j <= k

\* the number of emit points up to n: the position in LastStored of the
\* question emitted at n
EmitRank(n) == Cardinality({e \in EmitPoints : e <= n})

(***************************************************************************)
(* C3: every QuizQuestion row generate_quiz stores has a non-empty         *)
(* question text, at least one option and a non-empty correct answer, and  *)
(* a question in progress that lacks one of these at the next question     *)
(* marker or at the end of input stores no row: the rows stored are        *)
(* exactly one per boundary reached with a complete question.              *)
(***************************************************************************)
C3_EmittedComplete ==
    /\ \A i \in 1..Len(quiz_questions) :
          /\ quiz_questions[i].question # <<>>
          /\ SplitChar(quiz_questions[i].options, "|")[1] # <<>>
          /\ quiz_questions[i].answer # <<>>
    /\ ParsedLast => Len(LastStored) = Cardinality(EmitPoints)

\* a question was stored and an incomplete one was dropped
C3_Witness ==
    /\ ParsedLast
    /\ Len(LastStored) >= 1
    /\ DropPoints # {}

(***************************************************************************)
(* C8: the stored questions are in the order of their question markers,    *)
(* at most one per marker: their texts, in row order, are a subsequence of *)
(* the texts of the marker lines in input order.                           *)
(***************************************************************************)
RECURSIVE IsSubsequence(_, _)
IsSubsequence(a, b) ==
    IF a = <<>> THEN TRUE
    ELSE IF b = <<>> THEN FALSE
    ELSE IF Head(a) = Head(b) THEN IsSubsequence(Tail(a), Tail(b))
    ELSE IsSubsequence(a, Tail(b))

MarkerTexts ==
    LET ms == SelectSeq(InputLines, IsMarkerLine)
    IN  [i \in 1..Len(ms) |-> Strip(SliceFrom(Strip(ms[i]), 2))]

C8_OrderPreserved ==
    ParsedLast =>
        /\ IsSubsequence([i \in 1..Len(LastStored) |-> LastStored[i].question], MarkerTexts)
        /\ \A i \in 1..Len(LastStored) : LastStored[i].id = Len(quiz_questions) - Len(LastStored) + i

\* two questions with different texts were stored
C8_Witness ==
    /\ ParsedLast
    /\ Len(LastStored) = 2
    /\ LastStored[1].question # LastStored[2].question

(***************************************************************************)
(* C10: when a question marker arrives while the question in progress is   *)
(* incomplete, nothing of that question carries over: the question started *)
(* by the marker, when it is stored, has exactly the option lines and the  *)
(* correct answer found between its own marker and the next boundary.      *)
(***************************************************************************)
OptionsBetween(a, b) ==
    LET between == SubSeq(InputLines, a + 1, b - 1)
        opts == SelectSeq(between, IsOptionLine)
    IN  [i \in 1..Len(opts) |-> Strip(opts[i])]

AnswerBetween(a, b) ==
    LET between == SubSeq(InputLines, a + 1, b - 1)
        answers == SelectSeq(between, IsAnswerLine)
    IN  IF answers = <<>> THEN <<>>
        ELSE Strip(SplitLast(Strip(answers[Len(answers)]), CorrectAnswerMarker))

C10_NoCarryOver ==
    ParsedLast =>
        \A n \in EmitPoints :
            LET k == MarkerBefore(n) IN
            (k \in DropPoints) =>
                /\ LastStored[EmitRank(n)].options = Join(OptionsBetween(k, n), <<"|">>)
                /\ LastStored[EmitRank(n)].answer = AnswerBetween(k, n)

(***************************************************************************)
(* C1: generate_quiz invoked twice in succession on the same module: the   *)
(* second invocation does not call the backend and stores no row, and the  *)
(* module keeps exactly the rows the first invocation stored.              *)
(***************************************************************************)
\* requests i and i+1 are generate_quiz on the same existing module, and the
\* backend returned a text to request i, which then ended normally
TwiceInSuccession(i) ==
    /\ i + 1 <= Len(requests)
    /\ requests[i].route = "generate_quiz"
    /\ requests[i + 1].route = "generate_quiz"
    /\ requests[i].module_id = requests[i + 1].module_id
    /\ ModuleExists(requests[i].module_id)
    /\ requests[i].status = 302
    /\ requests[i].flash = FlashGenerated

Unkeyed(rows) ==
    [i \in 1..Len(rows) |-> [question |-> rows[i].question, options |-> rows[i].options,
                             answer |-> rows[i].answer, module_id |-> rows[i].module_id]]

SecondIsNoOp(i) ==
    /\ ~requests[i + 1].llm_called
    /\ requests[i + 1].stored = 0
    /\ requests[i + 1].flash = FlashAlready
    /\ (i + 1 = Len(requests)) =>
          Unkeyed(ByModule(quiz_questions, requests[i].module_id))
              = ParseQuiz(generate_quiz_questions(requests[i].content), requests[i].module_id)

\* the claim as stated, for every text the backend may return
C1_SecondIsNoOp ==
    \A i \in 1..Len(requests) : TwiceInSuccession(i) => SecondIsNoOp(i)

\* amended: the second invocation is a no-op when the first one stored at
\* least one question
C1_SecondIsNoOpWhenStored ==
    \A i \in 1..Len(requests) :
        (TwiceInSuccession(i) /\ requests[i].stored > 0) => SecondIsNoOp(i)

C1_Witness ==
    \E i \in 1..Len(requests) :
        /\ TwiceInSuccession(i)
        /\ requests[i].stored > 0
        /\ requests[i + 1].flash = FlashAlready

(***************************************************************************)
(* C6: a generate_quiz invocation is all-or-nothing: in every step each    *)
(* module's rows either stay what they were or gain every question parsed  *)
(* from the backend's text, and a request that fails (backend call or      *)
(* commit) leaves the table as it was.                                     *)
(***************************************************************************)
C6_Step ==
    /\ \A m \in 1..NumModules :
          \/ ByModule(quiz_questions', m) = ByModule(quiz_questions, m)
          \/ /\ ParsedLast'
             /\ LastRequest'.module_id = m
             /\ Unkeyed(ByModule(quiz_questions', m))
                    = Unkeyed(ByModule(quiz_questions, m))
                         \o ParseQuiz(generate_quiz_questions(LastRequest'.content), m)
    /\ (Len(requests') > Len(requests) /\ LastRequest'.status = 500)
          => quiz_questions' = quiz_questions

C6_AllOrNothing == [][C6_Step]_vars

\* a commit failed after the parser had emitted two questions, and none is stored
C6_Witness ==
    /\ requests # <<>>
    /\ LastRequest.status = 500
    /\ LastRequest.llm_called
    /\ Len(ParseQuiz(generate_quiz_questions(LastRequest.content), LastRequest.module_id)) = 2
    /\ ByModule(quiz_questions, LastRequest.module_id) = <<>>

(***************************************************************************)
(* C4: generation is serialized per module: whatever the interleaving of   *)
(* concurrent generate_quiz requests, at most one of the requests for a    *)
(* module stores a question set.                                           *)
(***************************************************************************)
StoringRequests(m) ==
    {i \in 1..Len(requests) : /\ requests[i].route = "generate_quiz"
                              /\ requests[i].module_id = m
                              /\ requests[i].stored > 0}

C4_OneSetPerModule ==
    \A m \in 1..NumModules :
        /\ Cardinality(StoringRequests(m)) <= 1
        /\ \A i \in StoringRequests(m) :
              Len(ByModule(quiz_questions, m)) = requests[i].stored

(***************************************************************************)
(* Reading the remote catalog and the served imports                       *)
(***************************************************************************)
RemoteTitle(i) == Get(remote.courses[i].fullname, "Untitled")

\* the id of the local course a remote course maps to (0: none)
LocalIdOf(i) == FindCourse([courses |-> courses], RemoteTitle(i))

\* the content items of remote course i, as <<section, position>> pairs
ItemsOf(i) ==
    UNION {{<<k, n>> : n \in 1..Len(remote.contents[i].sections[k].modules)}
               : k \in 1..Len(remote.contents[i].sections)}

ItemAt(i, kn) == remote.contents[i].sections[kn[1]].modules[kn[2]]

\* importing remote course i raises: its listing cannot be fetched, or one of
\* its items is not an object
ImportFails(i) ==
    \/ ~remote.contents[i].ok
    \/ \E kn \in ItemsOf(i) : ItemAt(i, kn).json # "object"

HasModule(title, course_id) ==
    \E k \in 1..Len(modules) : modules[k].title = title /\ modules[k].course_id = course_id

ImportedAll(i) ==
    \A kn \in ItemsOf(i) :
        HasModule(Get(ItemAt(i, kn).name, "Untitled Module"), LocalIdOf(i))

RECURSIVE SumCourses(_)
SumCourses(n) == IF n = 0 THEN 0 ELSE SumCourses(n - 1) + requests[n].imported_courses

(***************************************************************************)
(* C2: an import run that follows another against the unchanged catalog    *)
(* reports 0 courses and 0 modules and leaves both tables as they were.    *)
(***************************************************************************)
C2_SecondRunAddsNothing ==
    \A i \in 1..Len(requests) :
        (/\ i + 1 <= Len(requests)
         /\ requests[i].route = "moodle_import"
         /\ requests[i + 1].route = "moodle_import"
         /\ remote.up)
        => /\ requests[i + 1].imported_courses = 0
           /\ requests[i + 1].imported_modules = 0
           /\ requests[i + 1].courses_after = requests[i].courses_after
           /\ requests[i + 1].modules_after = requests[i].modules_after

(***************************************************************************)
(* C5: an exception while importing one course's modules is caught and the *)
(* run goes on: the run ends with its report and one warning per failing   *)
(* course, every course that did not fail has all its items imported, and  *)
(* a failing course contributes no module (no module is stored under a     *)
(* local course that only failing remote courses map to).                  *)
(***************************************************************************)
C5_FailureIsolated ==
    (requests # <<>> /\ LastRequest.route = "moodle_import" /\ remote.up) =>
        LET n == Len(remote.courses)
            flashes == LastRequest.flashes
        IN  /\ flashes[Len(flashes)].category = "success"
            /\ Cardinality({k \in 1..Len(flashes) : flashes[k].category = "warning"})
                   = Cardinality({i \in 1..n : ImportFails(i)})
            /\ \A i \in 1..n : ~ImportFails(i) => ImportedAll(i)
            /\ \A i \in 1..n :
                  (/\ ImportFails(i)
                   /\ \A j \in 1..n : RemoteTitle(j) = RemoteTitle(i) => ImportFails(j))
                  => ~\E k \in 1..Len(modules) : modules[k].course_id = LocalIdOf(i)

(***************************************************************************)
(* C7: remote courses with the same fullname map to one local course: no   *)
(* two local courses share a title, every remote course has exactly one    *)
(* local course of its title, and the courses counts reported add up to    *)
(* the courses created (one per title).                                    *)
(***************************************************************************)
C7_OneCoursePerTitle ==
    /\ \A a, b \in 1..Len(courses) : courses[a].title = courses[b].title => a = b
    /\ (requests # <<>> /\ remote.up) =>
          /\ \A i \in 1..Len(remote.courses) :
                Cardinality({a \in 1..Len(courses) : courses[a].title = RemoteTitle(i)}) = 1
          /\ SumCourses(Len(requests)) = Len(courses)
          /\ SumCourses(Len(requests))
                = Cardinality({RemoteTitle(i) : i \in 1..Len(remote.courses)})

\* two remote courses had the same fullname, and the import created one course
C7_Witness ==
    /\ requests # <<>>
    /\ remote.up
    /\ \E i, j \in 1..Len(remote.courses) : i < j /\ RemoteTitle(i) = RemoteTitle(j)
    /\ requests[1].imported_courses = 1
    /\ Len(courses) = 1

(***************************************************************************)
(* C9: analytics gives, for every module, count = the number of the        *)
(* module's attempts and min, max and mean of their scores; a module       *)
(* without attempts has count 0 and no mean, min or max.                   *)
(***************************************************************************)
ScoresOf(m) ==
    LET attempts == SelectSeq(quiz_attempts, LAMBDA a : a.module_id = m)
    IN  [i \in 1..Len(attempts) |-> attempts[i].score]

\* x and y are numbers (not None) and equal
SameNumber(x, y) == x.den # 0 /\ y.den # 0 /\ x.num * y.den = y.num * x.den

\* x is the sum of the scores divided by cnt
IsMean(x, scores, cnt) ==
    /\ x.den # 0
    /\ x.num * PySum(scores).den * cnt = PySum(scores).num * x.den

IsLeast(x, scores) ==
    /\ \E i \in 1..Len(scores) : SameNumber(x, scores[i])
    /\ \A i \in 1..Len(scores) : ~RatLess(scores[i], x)

IsGreatest(x, scores) ==
    /\ \E i \in 1..Len(scores) : SameNumber(x, scores[i])
    /\ \A i \in 1..Len(scores) : ~RatLess(x, scores[i])

\* x is a whole number of hundredths, at most half a hundredth from a value y
\* that has the property P
Abs(n) == IF n < 0 THEN -n ELSE n

IsHundredths(x) == x.den # 0 /\ 100 % x.den = 0

Near(x, y) == 200 * Abs(x.num * y.den - y.num * x.den) <= x.den * y.den

NoStatistics(e) ==
    /\ e.attempts_count = 0
    /\ e.avg_score = NoneNumber
    /\ e.min_score = NoneNumber
    /\ e.max_score = NoneNumber

\* the claim as stated: the exact values
ExactEntry(e, scores) ==
    IF scores = <<>> THEN NoStatistics(e)
    ELSE /\ e.attempts_count = Len(scores)
         /\ IsMean(e.avg_score, scores, Len(scores))
         /\ IsLeast(e.min_score, scores)
         /\ IsGreatest(e.max_score, scores)

\* amended: mean, min and max rounded to two decimals
RoundedEntry(e, scores) ==
    IF scores = <<>> THEN NoStatistics(e)
    ELSE /\ e.attempts_count = Len(scores)
         /\ IsHundredths(e.avg_score)
         /\ IsHundredths(e.min_score)
         /\ IsHundredths(e.max_score)
         /\ Near(e.avg_score,
                 Rat(PySum(scores).num, PySum(scores).den * Len(scores)))
         /\ \E i \in 1..Len(scores) :
               /\ \A j \in 1..Len(scores) : ~RatLess(scores[j], scores[i])
               /\ Near(e.min_score, scores[i])
         /\ \E i \in 1..Len(scores) :
               /\ \A j \in 1..Len(scores) : ~RatLess(scores[i], scores[j])
               /\ Near(e.max_score, scores[i])

\* a step that produced new analytics
AnalyticsStep == module_data' # module_data

C9_ExactStatistics ==
    [][AnalyticsStep =>
          /\ Len(module_data') = Len(modules)
          /\ \A i \in 1..Len(modules) :
                /\ module_data'[i].title = modules[i].title
                /\ ExactEntry(module_data'[i], ScoresOf(modules[i].id))]_vars

C9_RoundedStatistics ==
    [][AnalyticsStep =>
          /\ Len(module_data') = Len(modules)
          /\ \A i \in 1..Len(modules) :
                /\ module_data'[i].title = modules[i].title
                /\ RoundedEntry(module_data'[i], ScoresOf(modules[i].id))]_vars

\* the scores 80, 100, 60 of one module, reported as count 3, mean 80, min 60,
\* max 100
C9_Witness ==
    /\ ScoresOf(1) = <<Rat(80, 1), Rat(100, 1), Rat(60, 1)>>
    /\ module_data # <<>>
    /\ module_data[1].attempts_count = 3
    /\ module_data[1].avg_score = Rat(80, 1)
    /\ module_data[1].min_score = Rat(60, 1)
    /\ module_data[1].max_score = Rat(100, 1)

(***************************************************************************)
(* C11: an option line read while no question is in progress (the question *)
(* text is empty: before the first marker, or after a marker with no text) *)
(* leaves the loop's locals as they were, and is not among the options of  *)
(* any row stored afterwards.                                              *)
(***************************************************************************)
\* the option lines read with no question in progress
StrayOptions ==
    {n \in 1..Len(InputLines) : /\ IsOptionLine(InputLines[n])
                                /\ LocalsBefore(n).question_text = <<>>}

\* the option lines of stored row r
OptionsOfRow(r) == SplitChar(LastStored[r].options, "|")

\* the rows stored at a boundary after line n
RowsAfter(n) == {EmitRank(e) : e \in {b \in EmitPoints : b > n}}

\* the lines from which an option of row r may come: the option lines read
\* with a question in progress
OwnedOptions ==
    {Strip(InputLines[n]) : n \in {k \in 1..Len(InputLines) :
                                       /\ IsOptionLine(InputLines[k])
                                       /\ k \notin StrayOptions}}

C11_StrayOptionIgnored ==
    ParsedLast =>
        \A n \in StrayOptions :
            /\ LocalsBefore(n + 1) = LocalsBefore(n)
            /\ \A r \in RowsAfter(n) :
                  \A k \in 1..Len(OptionsOfRow(r)) :
                      OptionsOfRow(r)[k] = Strip(InputLines[n])
                          => Strip(InputLines[n]) \in OwnedOptions

(***************************************************************************)
(* C12: every served import reports what it added: its courses count is    *)
(* the growth of the courses table over the request and its modules count  *)
(* is the growth of the modules table over the request.                    *)
(***************************************************************************)
\* the sizes of the two tables when request i began
CoursesBefore(i) == IF i = 1 THEN 0 ELSE requests[i - 1].courses_after

ModulesBefore(i) == IF i = 1 THEN 0 ELSE requests[i - 1].modules_after

C12_CountsMatchStore ==
    \A i \in 1..Len(requests) :
        requests[i].route = "moodle_import" =>
            /\ requests[i].imported_courses = requests[i].courses_after - CoursesBefore(i)
            /\ requests[i].imported_modules = requests[i].modules_after - ModulesBefore(i)

(***************************************************************************)
(* C13: a line that begins, whatever the case of its letters and whatever  *)
(* the spaces around the colon, with "Correct answer:" sets the correct    *)
(* answer of the question in progress to the trimmed text after the colon. *)
(***************************************************************************)
UpperLetters == <<"A", "B", "C", "D", "P", "Q", "R", "S">>

LowerLetters == <<"a", "b", "c", "d", "p", "q", "r", "s">>

LowerChar(ch) ==
    LET at == {i \in 1..Len(UpperLetters) : UpperLetters[i] = ch}
    IN  IF at = {} THEN ch ELSE LowerLetters[CHOOSE i \in at : TRUE]

Lower(s) == [i \in 1..Len(s) |-> LowerChar(s[i])]

\* "correct answer", the marker without its colon, in lower case
MarkerWords == Lower(SubSeq(CorrectAnswerMarker, 1, Len(CorrectAnswerMarker) - 1))

\* what follows the marker words, spaces before the colon skipped
AfterMarkerWords(line) == LStrip(SliceFrom(Strip(line), Len(MarkerWords)))

IsTolerantAnswerLine(line) ==
    /\ ~IsMarkerLine(line)
    /\ ~IsOptionLine(line)
    /\ StartsWith(Lower(Strip(line)), MarkerWords)
    /\ StartsWith(AfterMarkerWords(line), <<":">>)

TolerantLabel(line) == Strip(SliceFrom(AfterMarkerWords(line), 1))

C13_TolerantAnswerLine ==
    ParsedLast =>
        \A n \in 1..Len(InputLines) :
            IsTolerantAnswerLine(InputLines[n])
                => LocalsBefore(n + 1).correct_answer = TolerantLabel(InputLines[n])

====
